---- MODULE Spec2Model ----
(***************************************************************************)
(* Model of modelurl/utils.py: replacement of urls by macros.              *)
(*                                                                         *)
(* Strings are sequences of one-character strings.  The specifications    *)
(* share the variables: SpecDict (ReplaceByDict called from one thread),   *)
(* SpecLazy (threads making their first calls on one ReplaceByDict),       *)
(* SpecView (one call of ReplaceByView.url), SpecSeq (one thread calling   *)
(* ReplaceByView.url several times beside a thread that only renders),     *)
(* SpecConc (several threads calling ReplaceByView.url concurrently) and   *)
(* SpecInstall (executions of the module body that wraps Template.render). *)
(***************************************************************************)
EXTENDS Integers, Sequences, FiniteSets, TLC

VARIABLES
    source,     \* ReplaceByDict.source: the dictionary given to __init__
    silent,     \* BaseReplace.silent
    dict,       \* ReplaceByDict.dict   (None until get_dict builds it)
    list,       \* ReplaceByDict.list   (None until get_list builds it)
    regexp,     \* ReplaceByDict.regexp (None until get_regexp builds it)
    input,      \* the string the caller holds and passes to url and text
    op,         \* the last public method called: "none", "url", "text", "text2"
    value,      \* the argument of that call
    result,     \* its outcome: [kind |-> "ok", val |-> s] or [kind |-> exception]
    replaced,   \* the calls of text's replace callback: <<[b, e, repl]>>
    views,      \* ReplaceByView.views: view -> name of its object in the context
    sites,      \* ReplaceByView.sites
    send_query, \* ReplaceByView.send_query
    vurl,       \* per calling thread: the argument of its ReplaceByView.url call
    pc,         \* per calling thread: "start", "call", "request" or "done"
    req,        \* per calling thread: the arguments given to object_from_view
    trail,      \* per calling thread: the collaborators its call has invoked
    renders,    \* per calling thread: the render passes of its local request
    local,      \* threading.local(): per thread, modelurl_object_name and modelurl_object
    status,     \* per calling thread: the status code of its local response, 0 before
    found,      \* per calling thread: the outcome of its object_from_view call
    inner,      \* per calling thread: the outcome of url inside silentmethod
    vresult,    \* per calling thread: the outcome of its ReplaceByView.url call
    past,       \* per calling thread: what object_from_view gave its earlier calls
    outside,    \* the last render pass of the thread that calls no url, None before
    Template,   \* django.template.Template: the wrappers around render, the marker
    lock,       \* the module's global name lock: the lock object it is bound to
    held,       \* per lock object: whether it is acquired
    loading,    \* per execution of the module body (lines 202-208): its position
    thr         \* per thread sharing one ReplaceByDict: its call and its position

varsV == <<views, sites, send_query, vurl, pc, req, trail, renders, local, status,
           found, inner, vresult, past, outside>>

varsI == <<Template, lock, held, loading>>

varsL == <<thr>>

vars == <<source, silent, dict, list, regexp, input, op, value, result, replaced,
          views, sites, send_query, vurl, pc, req, trail, renders, local, status,
          found, inner, vresult, past, outside, Template, lock, held, loading, thr>>

varsD == <<source, silent, dict, list, regexp, input, op, value, result, replaced>>

(***************************************************************************)
(* Bounds.                                                                 *)
(***************************************************************************)
MaxTextLen == 3     \* longest argument of ReplaceByDict.url / .text
MaxKeys == 2        \* most keys of a source dictionary
MaxRenders == 2     \* most render passes of one local request
NCallers == 2       \* threads that call ReplaceByView.url concurrently
MaxCalls == 2       \* most calls of ReplaceByView.url one thread makes in a row
NLoaders == 2       \* executions of the module body (lines 202-208)
NThreads == 2       \* threads that share one ReplaceByDict

(***************************************************************************)
(* Characters and strings.                                                 *)
(***************************************************************************)
\* str.lower() on one character (ASCII letters of the model's alphabet)
LowerChar(c) ==
    CASE c = "A" -> "a"
      [] c = "B" -> "b"
      [] c = "E" -> "e"
      [] c = "H" -> "h"
      [] c = "I" -> "i"
      [] c = "P" -> "p"
      [] c = "S" -> "s"
      [] c = "T" -> "t"
      [] OTHER -> c

\* str.lower(): every character lower-cased, length and order kept
Lower(s) == [j \in 1..Len(s) |-> LowerChar(s[j])]

\* ord(c): the ASCII code, which orders strings in list.sort
Ord(c) ==
    CASE c = " " -> 32 [] c = "#" -> 35 [] c = "(" -> 40 [] c = ")" -> 41
      [] c = "." -> 46 [] c = "/" -> 47 [] c = "1" -> 49 [] c = "2" -> 50
      [] c = ":" -> 58 [] c = "?" -> 63 [] c = "@" -> 64 [] c = "A" -> 65
      [] c = "B" -> 66 [] c = "E" -> 69 [] c = "H" -> 72 [] c = "I" -> 73
      [] c = "P" -> 80 [] c = "S" -> 83 [] c = "T" -> 84 [] c = "\\" -> 92
      [] c = "a" -> 97 [] c = "b" -> 98 [] c = "e" -> 101 [] c = "h" -> 104
      [] c = "i" -> 105 [] c = "m" -> 109 [] c = "p" -> 112 [] c = "s" -> 115
      [] c = "t" -> 116 [] c = "x" -> 120 [] c = "{" -> 123 [] c = "|" -> 124
      [] c = "}" -> 125

\* str.isalnum() on one character, as re.escape tests it
IsAlnum(c) == (Ord(c) >= 48 /\ Ord(c) <= 57) \/ (Ord(c) >= 65 /\ Ord(c) <= 90)
                  \/ (Ord(c) >= 97 /\ Ord(c) <= 122)

\* s < t for Python strings: the first differing character decides, a proper
\* prefix is smaller
RECURSIVE StrLess(_, _)
StrLess(s, t) ==
    IF s = <<>> THEN t # <<>>
    ELSE IF t = <<>> THEN FALSE
    ELSE IF Ord(Head(s)) # Ord(Head(t)) THEN Ord(Head(s)) < Ord(Head(t))
    ELSE StrLess(Tail(s), Tail(t))

(***************************************************************************)
(* macro(obj), lines 18-32.                                                *)
(***************************************************************************)
\* an object of a model class: its class's module and name, and its pk
Obj(module, name, pk) == [module |-> module, name |-> name, pk |-> pk]

\* '{@ %s.%s %s @}' % (module, name, pk)
macro(obj) ==
    <<"{", "@", " ">> \o obj.module \o <<".">> \o obj.name \o <<" ">>
        \o obj.pk \o <<" ", "@", "}">>

Page1 == Obj(<<"m">>, <<"P">>, <<"1">>)
Item2 == Obj(<<"m">>, <<"I">>, <<"2">>)

(***************************************************************************)
(* Python values.                                                          *)
(***************************************************************************)
None == [none |-> TRUE]
Some(v) == [none |-> FALSE, val |-> v]
Ok(v) == [kind |-> "ok", val |-> v]
Raise(e) == [kind |-> e]

\* the exception classes of lines 34-62: all are ReplaceException
ReplaceException ==
    {"DoesNotFoundException", "AlreadyMacroException", "NoPathException",
     "ForeignException"}

\* silentmethod without the test of self.silent (line 89)
silentmethod_always(isSilent, arg, outcome) ==
    IF outcome.kind \in ReplaceException THEN Ok(arg) ELSE outcome

\* silentmethod.wrapper, lines 85-92: a ReplaceException becomes the argument
\* when self.silent, and any other outcome passes through
silentmethod(isSilent, arg, outcome) ==
    IF outcome.kind \in ReplaceException /\ isSilent THEN Ok(arg) ELSE outcome

(***************************************************************************)
(* ReplaceByDict, lines 96-179.                                            *)
(***************************************************************************)
\* the orders in which dict.iteritems() may yield the items of d: the order
\* of a Python dictionary is not specified
IterOrders(d) ==
    {o \in [1..Cardinality(DOMAIN d) -> DOMAIN d] :
        \A i, j \in 1..Cardinality(DOMAIN d) : i # j => o[i] # o[j]}

\* lines 137-139: self.dict[key.lower()] = value for the keys in iteration
\* order, a later key overwriting an earlier one with the same lower() form
RECURSIVE LowerDict(_, _, _)
LowerDict(src, order, acc) ==
    IF order = <<>> THEN acc
    ELSE LowerDict(src, Tail(order),
                   (Lower(Head(order)) :> src[Head(order)]) @@ acc)

\* get_dict, lines 135-140: build self.dict on the first call only
get_dict(cache, src, order) ==
    IF cache = None THEN Some(LowerDict(src, order, <<>>)) ELSE cache

\* (key, value) tuples compare by key, then by value
TupleLess(a, b) == StrLess(a[1], b[1]) \/ (a[1] = b[1] /\ StrLess(a[2], b[2]))

\* list.sort() without reverse=True (line 148): the items in ascending order
RECURSIVE SortForward(_)
SortForward(items) ==
    IF items = {} THEN <<>>
    ELSE LET low == CHOOSE x \in items : \A y \in items : y = x \/ TupleLess(x, y)
         IN <<low>> \o SortForward(items \ {low})

\* list.sort(reverse=True), line 148: the items in descending order
RECURSIVE SortReverse(_)
SortReverse(items) ==
    IF items = {} THEN <<>>
    ELSE LET top == CHOOSE x \in items : \A y \in items : y = x \/ TupleLess(y, x)
         IN <<top>> \o SortReverse(items \ {top})

\* the set of the elements of a sequence
Range(f) == {f[j] : j \in DOMAIN f}

\* get_list, lines 142-149: the items of get_dict(), sorted on every call
get_list(cache, d) ==
    IF cache = None THEN Some(SortReverse({<<k, d[k]>> : k \in DOMAIN d}))
    ELSE Some(SortReverse(Range(cache.val)))

\* re.escape: a backslash before every character that is not alphanumeric
RECURSIVE re_escape(_)
re_escape(s) ==
    IF s = <<>> THEN <<>>
    ELSE (IF IsAlnum(Head(s)) THEN <<Head(s)>> ELSE <<"\\", Head(s)>>)
             \o re_escape(Tail(s))

\* '|'.join(parts)
RECURSIVE Join(_)
Join(parts) ==
    IF parts = <<>> THEN <<>>
    ELSE IF Len(parts) = 1 THEN parts[1]
    ELSE parts[1] \o <<"|">> \o Join(Tail(parts))

\* lines 156-157: the source of the pattern, one group '(%s)' per list entry
PatternSource(lst) ==
    Join([j \in 1..Len(lst) |-> <<"(">> \o re_escape(lst[j][1]) \o <<")">>])

\* re.compile on such a source: the branches of the alternation in order,
\* each a literal and the number of the group around it (0: no group)
RECURSIVE re_parse(_, _)
re_parse(p, st) ==
    IF p = <<>> THEN Append(st.branches, [lit |-> st.lit, group |-> st.group])
    ELSE IF Head(p) = "\\"
        THEN re_parse(Tail(Tail(p)), [st EXCEPT !.lit = Append(@, p[2])])
    ELSE IF Head(p) = "("
        THEN re_parse(Tail(p), [st EXCEPT !.group = st.n + 1, !.n = st.n + 1])
    ELSE IF Head(p) = ")" THEN re_parse(Tail(p), st)
    ELSE IF Head(p) = "|"
        THEN re_parse(Tail(p),
                 [st EXCEPT !.branches = Append(@, [lit |-> st.lit, group |-> st.group]),
                            !.lit = <<>>, !.group = 0])
    ELSE re_parse(Tail(p), [st EXCEPT !.lit = Append(@, Head(p))])

re_compile(p) ==
    re_parse(p, [lit |-> <<>>, group |-> 0, n |-> 0, branches |-> <<>>])

\* get_regexp, lines 151-158: compile on the first call only
get_regexp(cache, lst) ==
    IF cache = None THEN Some(re_compile(PatternSource(lst))) ELSE cache

\* matching without re.IGNORECASE (line 157)
MatchAt_case_sensitive(lit, s, p) ==
    /\ p + Len(lit) <= Len(s)
    /\ \A j \in 1..Len(lit) : s[p + j] = lit[j]

\* the literal lit matches s at offset p under re.IGNORECASE
MatchAt(lit, s, p) ==
    /\ p + Len(lit) <= Len(s)
    /\ \A j \in 1..Len(lit) : LowerChar(s[p + j]) = LowerChar(lit[j])

\* a search in which the last branch that matches wins, not the first
Search_last_branch(re, s, start) ==
    LET hits == {p \in start..Len(s) : \E j \in 1..Len(re) : MatchAt(re[j].lit, s, p)}
    IN IF hits = {} THEN [found |-> FALSE]
       ELSE LET b == CHOOSE p \in hits : \A q \in hits : p <= q
                j == CHOOSE j \in 1..Len(re) :
                        /\ MatchAt(re[j].lit, s, b)
                        /\ \A k \in (j + 1)..Len(re) : ~MatchAt(re[k].lit, s, b)
            IN [found |-> TRUE, b |-> b, e |-> b + Len(re[j].lit),
                group |-> re[j].group]

\* regexp.search from offset start: the leftmost offset where a branch
\* matches, and there the first branch that does
Search(re, s, start) ==
    LET hits == {p \in start..Len(s) : \E j \in 1..Len(re) : MatchAt(re[j].lit, s, p)}
    IN IF hits = {} THEN [found |-> FALSE]
       ELSE LET b == CHOOSE p \in hits : \A q \in hits : p <= q
                j == CHOOSE j \in 1..Len(re) :
                        /\ MatchAt(re[j].lit, s, b)
                        /\ \A k \in 1..(j - 1) : ~MatchAt(re[k].lit, s, b)
            IN [found |-> TRUE, b |-> b, e |-> b + Len(re[j].lit),
                group |-> re[j].group]

\* the number of groups of a compiled pattern
NGroups(re) == Cardinality({j \in 1..Len(re) : re[j].group # 0})

\* match.groups(): the text of the group that took part, None for the others
MatchGroups(re, s, m) ==
    [g \in 1..NGroups(re) |->
        IF g = m.group THEN Some(SubSeq(s, m.b + 1, m.e)) ELSE None]

\* replace, lines 174-178: the macro of the list entry at the index of the
\* first group that is not None, '' when there is none
replace(groups, lst) ==
    LET set == {g \in 1..Len(groups) : groups[g] # None}
    IN IF set = {} THEN <<>>
       ELSE lst[CHOOSE g \in set : \A h \in set : g <= h][2]

\* regexp.sub(replace, s): the scan of the re module; st.start is where the
\* next search starts, st.i the end of the last replaced match, st.n the
\* number of replacements
RECURSIVE re_sub(_, _, _, _)
re_sub(re, lst, s, st) ==
    LET m == Search(re, s, st.start)
    IN IF ~m.found
       THEN [out |-> st.out \o SubSeq(s, st.i + 1, Len(s)), calls |-> st.calls]
       ELSE LET next == IF m.e = m.b THEN m.e + 1 ELSE m.e
                repl == replace(MatchGroups(re, s, m), lst)
            IN IF st.i = m.b /\ st.i = m.e /\ st.n > 0
               THEN re_sub(re, lst, s, [st EXCEPT !.start = next])
               ELSE re_sub(re, lst, s,
                       [start |-> next, i |-> m.e, n |-> st.n + 1,
                        out |-> st.out \o SubSeq(s, st.i + 1, m.b) \o repl,
                        calls |-> Append(st.calls,
                                     [b |-> m.b, e |-> m.e, repl |-> repl])])

\* ReplaceByDict.text, lines 170-179, on built caches
text(re, lst, s) ==
    re_sub(re, lst, s, [start |-> 0, i |-> 0, n |-> 0, out |-> <<>>, calls |-> <<>>])

\* the body of url without the lower() of line 166
url_body_exact(d, s) ==
    IF s \in DOMAIN d THEN Ok(d[s]) ELSE Raise("DoesNotFoundException")

\* the body of ReplaceByDict.url, lines 165-168, on the built dictionary
url_body(d, s) ==
    IF Lower(s) \in DOMAIN d THEN Ok(d[Lower(s)]) ELSE Raise("DoesNotFoundException")

(***************************************************************************)
(* Collaborators of ReplaceByView.                                         *)
(***************************************************************************)
\* the least index of s that holds a character of set, Len(s) + 1 if none
FirstIndex(s, set) ==
    LET hits == {j \in 1..Len(s) : s[j] \in set}
    IN IF hits = {} THEN Len(s) + 1 ELSE CHOOSE j \in hits : \A k \in hits : j <= k

\* urlmethods.urlsplit (line 245): the five components of a url reference,
\* ^(([^:/?#]+):)?(//([^/?#]*))?([^?#]*)(\?([^#]*))?(#(.*))?, an absent
\* component being empty.  Each step takes one component off the front of
\* u.rest.
SplitScheme(s, i) ==
    IF i <= Len(s) /\ i > 1 /\ s[i] = ":"
    THEN [scheme |-> SubSeq(s, 1, i - 1), rest |-> SubSeq(s, i + 1, Len(s))]
    ELSE [scheme |-> <<>>, rest |-> s]

SplitAuthority(u, j) ==
    IF Len(u.rest) >= 2 /\ u.rest[1] = "/" /\ u.rest[2] = "/"
    THEN [scheme |-> u.scheme, authority |-> SubSeq(u.rest, 3, j - 1),
          rest |-> SubSeq(u.rest, j, Len(u.rest))]
    ELSE [scheme |-> u.scheme, authority |-> <<>>, rest |-> u.rest]

SplitPath(u, k) ==
    [scheme |-> u.scheme, authority |-> u.authority,
     path |-> SubSeq(u.rest, 1, k - 1), rest |-> SubSeq(u.rest, k, Len(u.rest))]

SplitQuery(u, l) ==
    IF u.rest # <<>> /\ u.rest[1] = "?"
    THEN [scheme |-> u.scheme, authority |-> u.authority, path |-> u.path,
          query |-> SubSeq(u.rest, 2, l - 1), rest |-> SubSeq(u.rest, l, Len(u.rest))]
    ELSE [scheme |-> u.scheme, authority |-> u.authority, path |-> u.path,
          query |-> <<>>, rest |-> u.rest]

SplitFragment(u) ==
    [scheme |-> u.scheme, authority |-> u.authority, path |-> u.path,
     query |-> u.query, fragment |-> SubSeq(u.rest, 2, Len(u.rest))]

\* the least index from `from` on, Len(s) + 1 if none
IndexFrom(s, from, set) ==
    LET hits == {j \in from..Len(s) : s[j] \in set}
    IN IF hits = {} THEN Len(s) + 1 ELSE CHOOSE j \in hits : \A k \in hits : j <= k

WithAuthority(u) == SplitAuthority(u, IndexFrom(u.rest, 3, {"/", "?", "#"}))
WithPath(u) == SplitPath(u, FirstIndex(u.rest, {"?", "#"}))
WithQuery(u) == SplitQuery(u, FirstIndex(u.rest, {"#"}))

urlsplit(s) ==
    SplitFragment(WithQuery(WithPath(WithAuthority(
        SplitScheme(s, FirstIndex(s, {":", "/", "?", "#"}))))))

\* s is a macro token '{@ <type> <identifier> @}'
IsMacroToken(s) ==
    /\ Len(s) >= 9
    /\ SubSeq(s, 1, 3) = <<"{", "@", " ">>
    /\ SubSeq(s, Len(s) - 2, Len(s)) = <<" ", "@", "}">>
    /\ LET body == SubSeq(s, 4, Len(s) - 3)
       IN /\ Cardinality({j \in 1..Len(body) : body[j] = " "}) = 1
          /\ body[1] # " " /\ body[Len(body)] # " "

\* MACRO_RE.match(s) (line 243): a macro token starts s
MACRO_RE_match(s) == \E n \in 1..Len(s) : IsMacroToken(SubSeq(s, 1, n))

\* ReplaceByView.SERVER_SCHEMES, line 227
SERVER_SCHEMES == {<<"h", "t", "t", "p">>}

\* the url patterns of settings.ROOT_URLCONF: r'^a' for the view V1 and
\* r'^b$' for the view V2
URLPatterns ==
    << [lit |-> <<"a">>, anchored |-> FALSE, view |-> "V1"],
       [lit |-> <<"b">>, anchored |-> TRUE, view |-> "V2"] >>

\* a url pattern matches the path that is left after the resolver's prefix
PatternMatches(pat, rest) ==
    /\ Len(pat.lit) <= Len(rest)
    /\ SubSeq(rest, 1, Len(pat.lit)) = pat.lit
    /\ pat.anchored => Len(rest) = Len(pat.lit)

\* RegexURLResolver(r'^/', ROOT_URLCONF).resolve(s), lines 251-252: the view
\* of the first pattern that matches what follows the leading '/', and
\* Resolver404, which is no ReplaceException, when s does not start with '/'
\* or no pattern matches
resolve(s) ==
    IF s = <<>> \/ Head(s) # "/" THEN Raise("Resolver404")
    ELSE LET hits == {j \in 1..Len(URLPatterns) : PatternMatches(URLPatterns[j], Tail(s))}
         IN IF hits = {} THEN Raise("Resolver404")
            ELSE Ok(URLPatterns[CHOOSE j \in hits : \A k \in hits : j <= k].view)

(***************************************************************************)
(* ReplaceByView.url, lines 241-264, and what it calls.                    *)
(***************************************************************************)
\* the checks of url with the site check of lines 248-250 made first
url_checks_on_foreign_first(s, u, r, permitted, registry, forward) ==
    IF \/ u.scheme # <<>> /\ Lower(u.scheme) \notin SERVER_SCHEMES
       \/ u.authority # <<>> /\ Lower(u.authority) \notin permitted
    THEN [outcome |-> Raise("ForeignException"), trail |-> <<>>, next |-> None]
    ELSE IF MACRO_RE_match(s)
    THEN [outcome |-> Raise("AlreadyMacroException"), trail |-> <<>>, next |-> None]
    ELSE IF u.scheme = <<>> /\ u.authority = <<>> /\ u.path = <<>>
    THEN [outcome |-> Raise("NoPathException"), trail |-> <<>>, next |-> None]
    ELSE IF r.kind # "ok"
    THEN [outcome |-> r, trail |-> <<"resolve">>, next |-> None]
    ELSE IF r.val \notin DOMAIN registry
    THEN [outcome |-> Raise("DoesNotFoundException"), trail |-> <<"resolve">>,
          next |-> None]
    ELSE [outcome |-> Ok(<<>>), trail |-> <<"resolve", "object_from_view">>,
          next |-> Some([path |-> u.path,
                         query |-> IF forward THEN u.query ELSE <<>>,
                         name |-> registry[r.val]])]

\* the checks of url with a default name in place of the KeyError of lines
\* 253-256: a view that is not in self.views is called all the same
url_checks_on_unregistered_called(s, u, r, permitted, registry, forward) ==
    IF MACRO_RE_match(s)
    THEN [outcome |-> Raise("AlreadyMacroException"), trail |-> <<>>, next |-> None]
    ELSE IF u.scheme = <<>> /\ u.authority = <<>> /\ u.path = <<>>
    THEN [outcome |-> Raise("NoPathException"), trail |-> <<>>, next |-> None]
    ELSE IF \/ u.scheme # <<>> /\ Lower(u.scheme) \notin SERVER_SCHEMES
            \/ u.authority # <<>> /\ Lower(u.authority) \notin permitted
    THEN [outcome |-> Raise("ForeignException"), trail |-> <<>>, next |-> None]
    ELSE IF r.kind # "ok"
    THEN [outcome |-> r, trail |-> <<"resolve">>, next |-> None]
    ELSE [outcome |-> Ok(<<>>), trail |-> <<"resolve", "object_from_view">>,
          next |-> Some([path |-> u.path,
                         query |-> IF forward THEN u.query ELSE <<>>,
                         name |-> IF r.val \in DOMAIN registry
                                  THEN registry[r.val] ELSE "obj"])]

\* lines 243-260 after urlsplit gave u and, where the checks before it pass,
\* resolver.resolve gave r: the checks of url up to the call of
\* object_from_view; next holds the arguments of that call when all pass
url_checks_on(s, u, r, permitted, registry, forward) ==
    IF MACRO_RE_match(s)
    THEN [outcome |-> Raise("AlreadyMacroException"), trail |-> <<>>, next |-> None]
    ELSE IF u.scheme = <<>> /\ u.authority = <<>> /\ u.path = <<>>
    THEN [outcome |-> Raise("NoPathException"), trail |-> <<>>, next |-> None]
    ELSE IF \/ u.scheme # <<>> /\ Lower(u.scheme) \notin SERVER_SCHEMES
            \/ u.authority # <<>> /\ Lower(u.authority) \notin permitted
    THEN [outcome |-> Raise("ForeignException"), trail |-> <<>>, next |-> None]
    ELSE IF r.kind # "ok"
    THEN [outcome |-> r, trail |-> <<"resolve">>, next |-> None]
    ELSE IF r.val \notin DOMAIN registry
    THEN [outcome |-> Raise("DoesNotFoundException"), trail |-> <<"resolve">>,
          next |-> None]
    ELSE [outcome |-> Ok(<<>>), trail |-> <<"resolve", "object_from_view">>,
          next |-> Some([path |-> u.path,
                         query |-> IF forward THEN u.query ELSE <<>>,
                         name |-> registry[r.val]])]

url_checks(s, permitted, registry, forward) ==
    url_checks_on(s, urlsplit(s), resolve(s), permitted, registry, forward)

\* an empty threading.local() of one thread
NoAttrs == [name |-> None, obj |-> None]

\* object_from_view run in the thread of its caller (without the threadmethod
\* of line 210): what it set on local stays
ThreadEnd_kept(loc) == loc

\* threadmethod (line 210) runs each call of object_from_view in a thread of
\* its own: the attributes the call set on local end with that thread, and
\* the thread of the next call starts with none
ThreadEnd(loc) == NoAttrs

\* a wrapper without the test of line 190: where no name is pending, line 194
\* raises AttributeError and the pass does not render
wrapper_untested_name(loc, ctx) ==
    IF loc.obj # None THEN [local |-> loc, ran |-> FALSE]
    ELSE IF loc.name = None THEN [local |-> loc, ran |-> FALSE]
    ELSE IF loc.name.val \in DOMAIN ctx
    THEN [local |-> [loc EXCEPT !.obj = Some(ctx[loc.name.val])], ran |-> TRUE]
    ELSE [local |-> loc, ran |-> TRUE]

\* a wrapper without the test of lines 186-189: every pass whose context
\* holds the name captures, and every pass renders
wrapper_last_wins(loc, ctx) ==
    IF loc.name # None /\ loc.name.val \in DOMAIN ctx
    THEN [local |-> [loc EXCEPT !.obj = Some(ctx[loc.name.val])], ran |-> TRUE]
    ELSE [local |-> loc, ran |-> TRUE]

\* render.wrapper, lines 185-198, on the local of the rendering thread and
\* the context of the pass: the local afterwards, and whether the wrapped
\* render ran (the pass returns '' when it did not)
wrapper(loc, ctx) ==
    IF loc.obj # None THEN [local |-> loc, ran |-> FALSE]
    ELSE IF loc.name # None /\ loc.name.val \in DOMAIN ctx
    THEN [local |-> [loc EXCEPT !.obj = Some(ctx[loc.name.val])], ran |-> TRUE]
    ELSE [local |-> loc, ran |-> TRUE]

\* object_from_view with the test of the status code (lines 214-215) made
\* only when no object was captured
object_from_view_result_object_first(code, loc) ==
    IF loc.obj # None THEN Ok(loc.obj.val)
    ELSE Raise("DoesNotFoundException")

\* object_from_view, lines 214-219, on the response's status code and the
\* local of its thread
object_from_view_result(code, loc) ==
    IF code # 200 THEN Raise("DoesNotFoundException")
    ELSE IF loc.obj = None THEN Raise("DoesNotFoundException")
    ELSE Ok(loc.obj.val)

\* lines 262-264 on the outcome of object_from_view: the name generate_macro
\* is bound nowhere in the module (it defines macro, line 18, and imports no
\* generate_macro), so line 262 raises NameError and lines 263-264 never run
url_finish(obj) ==
    IF obj.kind # "ok" THEN obj ELSE Raise("NameError")

(***************************************************************************)
(* SpecDict: one ReplaceByDict instance and the calls of its methods.      *)
(***************************************************************************)
\* the characters of the texts and urls given to ReplaceByDict
TextAlphabet == {"/", "a", "A", "P"}

\* the strings of at most n characters
StringsUpTo(n) == UNION {[1..k -> TextAlphabet] : k \in 0..n}

\* the urls a source dictionary may have as keys ("Keys must be an url",
\* line 126), and the object each url shows: the dictionary maps the url to
\* the macro of its object, as in lines 102-107
KeyPool == {<<"/", "a">>, <<"/", "A">>, <<"/", "a", "p">>, <<"p">>}
ObjectAt(k) == IF k \in {<<"/", "a">>, <<"p">>} THEN Page1 ELSE Item2

\* the dictionaries ReplaceByDict.__init__ is given
Sources ==
    {[k \in ks |-> macro(ObjectAt(k))] :
        ks \in {ks \in SUBSET KeyPool : Cardinality(ks) <= MaxKeys}}

\* the iteration orders that matter to a call: none once self.dict is built
OrdersLeft == IF dict = None THEN IterOrders(source) ELSE {<<>>}

\* no ReplaceByView and no thread calling it
NoView ==
    /\ views = <<>> /\ sites = {} /\ send_query = FALSE
    /\ vurl = <<>> /\ pc = <<>> /\ req = <<>> /\ trail = <<>> /\ renders = <<>>
    /\ local = <<>> /\ status = <<>> /\ found = <<>> /\ inner = <<>> /\ vresult = <<>>
    /\ past = <<>> /\ outside = None

\* the module is loaded once: Template.render is wrapped and marked (lines
\* 204-207), the lock of line 202 is released (line 208)
Loaded ==
    /\ Template = [render |-> 1, render_by_model_url |-> TRUE]
    /\ lock = 1 /\ held = <<FALSE>> /\ loading = <<>>

\* no threads sharing a ReplaceByDict
NoLazy == thr = <<>>

InitDict ==
    /\ NoView /\ Loaded /\ NoLazy
    /\ source \in Sources
    /\ silent \in BOOLEAN
    /\ dict = None /\ list = None /\ regexp = None      \* lines 131-133
    /\ input \in StringsUpTo(MaxTextLen)
    /\ op = "none" /\ value = <<>> /\ result = Ok(<<>>) /\ replaced = <<>>

\* replace.url(input): silentmethod around lines 165-168
Url ==
    \E order \in OrdersLeft :
        LET d == get_dict(dict, source, order)
        IN /\ dict' = d
           /\ op' = "url" /\ value' = input
           /\ result' = silentmethod(silent, input, url_body(d.val, input))
           /\ replaced' = <<>>
           /\ UNCHANGED <<source, silent, list, regexp, input>>
           /\ UNCHANGED <<varsV, varsI, varsL>>

\* lines 170-179 on the argument s, building the caches that are missing
TextOn(s, name) ==
    \E order \in OrdersLeft :
        LET d == IF regexp = None /\ list = None
                 THEN get_dict(dict, source, order) ELSE dict
            l == get_list(list, d.val)
            re == get_regexp(regexp, l.val)
            r == text(re.val, l.val, s)
        IN /\ dict' = d /\ list' = l /\ regexp' = re
           /\ op' = name /\ value' = s
           /\ result' = Ok(r.out) /\ replaced' = r.calls
           /\ UNCHANGED <<source, silent, input>>
           /\ UNCHANGED <<varsV, varsI, varsL>>

\* replace.text(input)
Text == TextOn(input, "text")

\* replace.text(t) where t is what the previous replace.text(input) returned
TextAgain == op = "text" /\ TextOn(result.val, "text2")

NextDict == Url \/ Text \/ TextAgain

SpecDict == InitDict /\ [][NextDict]_vars

(***************************************************************************)
(* SpecLazy: threads that make their first calls of url and text on one    *)
(* ReplaceByDict.  A step is what a thread does between two points where   *)
(* the interpreter may switch threads and another thread can see or change *)
(* self.dict, self.list or self.regexp; the calls that run in C without    *)
(* the interpreter in between (list(d.iteritems()), list.sort, re.compile, *)
(* a subscript) are one step.                                              *)
(***************************************************************************)
\* the dictionaries of SpecLazy: MaxKeys keys, no two equal once lower-cased
LazySources ==
    {src \in Sources :
        /\ Cardinality(DOMAIN src) = MaxKeys
        /\ \A k1, k2 \in DOMAIN src : Lower(k1) = Lower(k2) => k1 = k2}

\* the items of the dictionary d
Items(d) == {<<k, d[k]>> : k \in DOMAIN d}

\* the orders in which list(d.iteritems()) may hold the items of d
ItemOrders(d) ==
    {o \in [1..Cardinality(DOMAIN d) -> Items(d)] :
        \A i, j \in 1..Cardinality(DOMAIN d) : i # j => o[i] # o[j]}

\* the list entry replace gets when its index is past the end of the list
IndexError == <<<<>>, <<"IndexError">>>>

\* lst, filled up to n entries
Padded(lst, n) ==
    [i \in 1..(IF n > Len(lst) THEN n ELSE Len(lst)) |->
        IF i <= Len(lst) THEN lst[i] ELSE IndexError]

\* lines 174-179 on the caches as they are: replace sorts self.list and
\* takes the entry at the index of the group that matched (line 177), which
\* raises IndexError when the list is shorter than the pattern has groups
text_on_caches(re, lst, s) ==
    LET r == text(re, Padded(SortReverse(Range(lst)), NGroups(re)), s)
    IN IF \E c \in 1..Len(r.calls) : r.calls[c].repl = IndexError[2]
       THEN Raise("IndexError") ELSE Ok(r.out)

\* thread t is at the position p
At(t, p) == thr[t].pc = p

\* thread t moves to the position p
Move(t, p) == thr' = [thr EXCEPT ![t].pc = p]

\* where get_dict returns to: line 166 in url, line 147 in get_list
AfterGetDict(t) == IF thr[t].op = "url" THEN "lookup" ELSE "snapshot"

InitLazy ==
    /\ NoView /\ Loaded
    /\ source \in LazySources
    /\ silent \in BOOLEAN
    /\ dict = None /\ list = None /\ regexp = None      \* lines 131-133
    /\ input \in DOMAIN source
    /\ op = "none" /\ value = <<>> /\ result = Ok(<<>>) /\ replaced = <<>>
    /\ \E order \in IterOrders(source) :
          thr = [t \in 1..NThreads |->
                    [pc |-> "idle", op |-> "none", order |-> order, todo |-> <<>>,
                     tmp |-> None, out |-> None]]

\* thread t calls url(input) or text(input)
Begin(t, o) ==
    /\ At(t, "idle")
    /\ thr' = [thr EXCEPT ![t].op = o,
                          ![t].pc = IF o = "url" THEN "d_test" ELSE "r_test"]
    /\ UNCHANGED <<varsD, varsV, varsI>>

\* line 155: if self.regexp is None
RegexpTest(t) ==
    /\ At(t, "r_test")
    /\ Move(t, IF regexp = None THEN "l_test" ELSE "sub")
    /\ UNCHANGED <<varsD, varsV, varsI>>

\* line 146: if self.list is None
ListTest(t) ==
    /\ At(t, "l_test")
    /\ Move(t, IF list = None THEN "d_test" ELSE "l_sort")
    /\ UNCHANGED <<varsD, varsV, varsI>>

\* line 136: if self.dict is None
DictTest(t) ==
    /\ At(t, "d_test")
    /\ Move(t, IF dict = None THEN "d_new" ELSE AfterGetDict(t))
    /\ UNCHANGED <<varsD, varsV, varsI>>

\* line 137: self.dict = {}, and the loop of line 138 begins
DictNew(t) ==
    /\ At(t, "d_new")
    /\ dict' = Some(<<>>)
    /\ thr' = [thr EXCEPT ![t].pc = "d_loop", ![t].todo = thr[t].order]
    /\ UNCHANGED <<source, silent, list, regexp, input, op, value, result, replaced>>
    /\ UNCHANGED <<varsV, varsI>>

\* lines 138-139: one turn of the loop, self.dict[key.lower()] = value; after
\* the last turn get_dict returns
DictLoop(t) ==
    /\ At(t, "d_loop")
    /\ dict' = Some((Lower(Head(thr[t].todo)) :> source[Head(thr[t].todo)]) @@ dict.val)
    /\ thr' = [thr EXCEPT ![t].todo = Tail(@),
                          ![t].pc = IF Len(thr[t].todo) = 1 THEN AfterGetDict(t)
                                    ELSE "d_loop"]
    /\ UNCHANGED <<source, silent, list, regexp, input, op, value, result, replaced>>
    /\ UNCHANGED <<varsV, varsI>>

\* lines 140 and 165-168: get_dict returns self.dict and url looks the
\* lower-cased argument up in it, inside silentmethod
Lookup(t) ==
    /\ At(t, "lookup")
    /\ thr' = [thr EXCEPT ![t].pc = "done",
                          ![t].out = Some(silentmethod(silent, input,
                                                       url_body(dict.val, input)))]
    /\ UNCHANGED <<varsD, varsV, varsI>>

\* lines 140 and 147, right-hand side: list(self.get_dict().iteritems())
Snapshot(t) ==
    /\ At(t, "snapshot")
    /\ \E items \in ItemOrders(dict.val) :
          thr' = [thr EXCEPT ![t].pc = "l_set", ![t].tmp = Some(items)]
    /\ UNCHANGED <<varsD, varsV, varsI>>

\* line 147, assignment: self.list = the list just made
ListSet(t) ==
    /\ At(t, "l_set")
    /\ list' = thr[t].tmp
    /\ Move(t, "l_sort")
    /\ UNCHANGED <<source, silent, dict, regexp, input, op, value, result, replaced>>
    /\ UNCHANGED <<varsV, varsI>>

\* line 148: self.list.sort(reverse=True)
ListSort(t) ==
    /\ At(t, "l_sort")
    /\ list' = get_list(list, <<>>)
    /\ Move(t, "l_ret")
    /\ UNCHANGED <<source, silent, dict, regexp, input, op, value, result, replaced>>
    /\ UNCHANGED <<varsV, varsI>>

\* lines 149 and 156-157, right-hand side: get_list returns self.list and
\* the pattern is compiled from it
Compile(t) ==
    /\ At(t, "l_ret")
    /\ thr' = [thr EXCEPT ![t].pc = "r_set",
                          ![t].tmp = Some(re_compile(PatternSource(list.val)))]
    /\ UNCHANGED <<varsD, varsV, varsI>>

\* line 156, assignment: self.regexp = the pattern just compiled
RegexpSet(t) ==
    /\ At(t, "r_set")
    /\ regexp' = thr[t].tmp
    /\ Move(t, "sub")
    /\ UNCHANGED <<source, silent, dict, list, input, op, value, result, replaced>>
    /\ UNCHANGED <<varsV, varsI>>

\* lines 158 and 179: get_regexp returns self.regexp and sub runs on input
Sub(t) ==
    /\ At(t, "sub")
    /\ thr' = [thr EXCEPT ![t].pc = "done",
                          ![t].out = Some(text_on_caches(regexp.val, list.val, input))]
    /\ list' = get_list(list, <<>>)
    /\ UNCHANGED <<source, silent, dict, regexp, input, op, value, result, replaced>>
    /\ UNCHANGED <<varsV, varsI>>

NextLazy ==
    \/ \E t \in DOMAIN thr, o \in {"url", "text"} : Begin(t, o)
    \/ \E t \in DOMAIN thr : RegexpTest(t)
    \/ \E t \in DOMAIN thr : ListTest(t)
    \/ \E t \in DOMAIN thr : DictTest(t)
    \/ \E t \in DOMAIN thr : DictNew(t)
    \/ \E t \in DOMAIN thr : DictLoop(t)
    \/ \E t \in DOMAIN thr : Lookup(t)
    \/ \E t \in DOMAIN thr : Snapshot(t)
    \/ \E t \in DOMAIN thr : ListSet(t)
    \/ \E t \in DOMAIN thr : ListSort(t)
    \/ \E t \in DOMAIN thr : Compile(t)
    \/ \E t \in DOMAIN thr : RegexpSet(t)
    \/ \E t \in DOMAIN thr : Sub(t)

SpecLazy == InitLazy /\ [][NextLazy]_vars

(***************************************************************************)
(* Claims about ReplaceByDict, checked under SpecDict.                     *)
(***************************************************************************)
\* the keys of the source dictionary that equal s once both are lower-cased
KeysLike(s) == {k \in DOMAIN source : Lower(k) = Lower(s)}

\* the key k occurs in s at offset p, letter case ignored
Occurs(k, s, p) ==
    /\ p + Len(k) <= Len(s)
    /\ Lower(SubSeq(s, p + 1, p + Len(k))) = Lower(k)

\* s with the stretches [b, e) of the calls replaced by their repl, the calls
\* taken from offset pos on and the rest of s kept
RECURSIVE Stitch(_, _, _)
Stitch(s, calls, pos) ==
    IF calls = <<>> THEN SubSeq(s, pos + 1, Len(s))
    ELSE SubSeq(s, pos + 1, Head(calls).b) \o Head(calls).repl
             \o Stitch(s, Tail(calls), Head(calls).e)

\* C1 as claimed: for every key k of the mapping and every letter-case
\* variant u of k, url(u) returns exactly the macro the mapping gives k, also
\* when the mapping holds several keys that are equal once lower-cased.
C1_EveryKeyItsOwnMacro ==
    op = "url" => \A k \in KeysLike(value) : result = Ok(source[k])

\* C1 as amended: url(u) for a letter-case variant u of a key returns the
\* macro the mapping gives to one of the keys equal to u once lower-cased; it
\* is exactly the macro of k whenever all those keys are given the same macro
\* (in particular when k is the only one).
C1_UrlReturnsMacroOfAKeyLikeIt ==
    op = "url" /\ KeysLike(value) # {} =>
        /\ result.kind = "ok"
        /\ result.val \in {source[k] : k \in KeysLike(value)}
        /\ \A k \in KeysLike(value) :
              (\A k2 \in KeysLike(value) : source[k2] = source[k])
                  => result = Ok(source[k])

\* a url call on a letter-case variant of a key that is not itself a key
C1_Witness ==
    /\ op = "url"
    /\ value \notin DOMAIN source
    /\ \E k \in KeysLike(value) : result = Ok(source[k])

C4_TextIdempotent ==
    op = "text2" => result.val = value

\* the indices of the entries of lst whose key matches s at offset p, letter
\* case ignored
EntriesAt(lst, s, p) == {i \in 1..Len(lst) : MatchAt(lst[i][1], s, p)}

\* C11: the list behind the alternation holds the lower-cased keys in
\* descending lexicographic order, each with the macro the lower-cased mapping
\* gives it; the i-th branch of the compiled pattern is the i-th key of the
\* list and carries the group i; where several keys match at the offset of a
\* replacement, the earliest in the list is the one matched and its macro is
\* the one substituted.
C11_FirstInDescendingOrderWins ==
    op \in {"text", "text2"} =>
        /\ {list.val[i][1] : i \in 1..Len(list.val)} = {Lower(k) : k \in DOMAIN source}
        /\ \A i, j \in 1..Len(list.val) :
              i < j => StrLess(list.val[j][1], list.val[i][1])
        /\ \A i \in 1..Len(list.val) :
              /\ list.val[i][2] = dict.val[list.val[i][1]]
              /\ regexp.val[i] = [lit |-> list.val[i][1], group |-> i]
        /\ NGroups(regexp.val) = Len(list.val)
        /\ \A c \in 1..Len(replaced) :
              source # <<>> =>
                  /\ EntriesAt(list.val, value, replaced[c].b) # {}
                  /\ \A i \in EntriesAt(list.val, value, replaced[c].b) :
                        (\A j \in EntriesAt(list.val, value, replaced[c].b) : i <= j)
                            => /\ replaced[c].e = replaced[c].b + Len(list.val[i][1])
                               /\ replaced[c].repl = list.val[i][2]

\* two entries of the list match at the offset of a replacement, and the
\* macro of the first of them, which is not that of the second, is substituted
C11_Witness ==
    /\ op = "text"
    /\ \E c \in 1..Len(replaced) :
          \E i, j \in EntriesAt(list.val, value, replaced[c].b) :
              /\ i < j
              /\ list.val[i][2] # list.val[j][2]
              /\ replaced[c].repl = list.val[i][2]

\* C12: whenever keys of the mapping occur (letter case ignored) at the
\* offset of a replacement, the stretch replaced is as long as the longest of
\* them and the macro substituted is the one of a longest of them: a shorter
\* key never shadows a longer one at the same offset.
C12_LongestKeyAtAPosition ==
    op \in {"text", "text2"} =>
        \A c \in 1..Len(replaced) :
            \A k \in DOMAIN source :
                Occurs(k, value, replaced[c].b)
                    => /\ Len(k) <= replaced[c].e - replaced[c].b
                       /\ Len(k) = replaced[c].e - replaced[c].b
                             => replaced[c].repl = dict.val[Lower(k)]

\* a key and a proper prefix of it, with different macros, both occur at the
\* offset of a replacement, and the macro of the longer one is substituted
C12_Witness ==
    /\ op = "text"
    /\ \E c \in 1..Len(replaced) :
          \E k, short \in DOMAIN source :
              /\ Len(short) < Len(k)
              /\ source[short] # source[k]
              /\ Occurs(k, value, replaced[c].b)
              /\ Occurs(short, value, replaced[c].b)
              /\ replaced[c].repl = source[k]

(***************************************************************************)
(* SpecView and SpecConc: threads calling ReplaceByView.url.  A call is    *)
(* the steps UrlStart (lines 243-260), Record (line 212 and the start of   *)
(* the local request of line 213), RenderPass (one call of the wrapper of  *)
(* Template.render by the view of the local request) and Respond (the      *)
(* return of the local request, lines 214-219 and 262-264).                *)
(***************************************************************************)
\* the thread threadmethod (line 210) starts for the call of caller t
Worker(t) == -t

\* a thread of the process that renders templates and calls no url
Bystander == 0

\* '?' and '#' are written before a query and a fragment that are present
UrlOf(scheme, authority, path, query, fragment) ==
    (IF scheme # <<>> THEN scheme \o <<":">> ELSE <<>>)
        \o (IF authority # <<>> THEN <<"/", "/">> \o authority ELSE <<>>)
        \o path
        \o (IF query # <<>> THEN <<"?">> \o query ELSE <<>>)
        \o (IF fragment # <<>> THEN <<"#">> \o fragment ELSE <<>>)

SchemePool == {<<>>, <<"h", "t", "t", "p">>, <<"H", "T", "T", "P">>, <<"m", "s">>}
AuthorityPool == {<<>>, <<"s">>, <<"S">>, <<"e">>, <<"x">>}
PathPool == {<<>>, <<"/", "a">>, <<"/", "b">>, <<"/", "x">>}
QueryPool == {<<>>, <<"q">>}
FragmentPool == {<<>>, <<"i">>}

\* the arguments of ReplaceByView.url: urls of every shape, macros, a macro
\* followed by ':' and an unfinished macro
UrlInputs ==
    {UrlOf(sc, au, pa, qu, fr) :
        sc \in SchemePool, au \in AuthorityPool, pa \in PathPool,
        qu \in QueryPool, fr \in FragmentPool}
    \cup {macro(Page1), macro(Item2) \o <<"?", "q">>, macro(Page1) \o <<":">>,
          <<"{", "@", " ", "m", ".", "P">>}

\* the sites and the views ReplaceByView.__init__ is given (lines 229-239)
SitesPool == {{<<"s">>}, {<<"S">>, <<"e">>}}
Registries == {<<>>, "V1" :> "obj", ("V1" :> "obj") @@ ("V2" :> "page")}

\* the contexts a view may render a template with
Contexts == {<<>>, "obj" :> Page1, "obj" :> Item2, "page" :> Item2}

\* the status codes of a local response
StatusCodes == {200, 404}

NoDict ==
    /\ source = <<>> /\ dict = None /\ list = None /\ regexp = None
    /\ input = <<>> /\ op = "none" /\ value = <<>> /\ result = Ok(<<>>)
    /\ replaced = <<>>

\* the url of caller t in SpecConc: the urls of the callers are distinct
RECURSIVE ConcPath(_)
ConcPath(t) == IF t = 1 THEN <<"a">> ELSE Append(ConcPath(t - 1), "a")
ConcUrl(t) == IF t = 2 THEN <<"/", "b">> ELSE <<"/">> \o ConcPath(t)

\* the object the view of caller t's url shows, and the contexts it renders
ConcObject(t) == Obj(<<"m">>, <<"P">>, ConcPath(t))
ConcContexts(t) == {<<>>, (IF t = 2 THEN "page" ELSE "obj") :> ConcObject(t)}

\* n threads about to call url, each with its url, and the locals of these
\* threads and of the threads object_from_view will run in
Callers(urls) ==
    /\ vurl = urls
    /\ pc = [t \in DOMAIN urls |-> "start"]
    /\ req = [t \in DOMAIN urls |-> None]
    /\ trail = [t \in DOMAIN urls |-> <<>>]
    /\ renders = [t \in DOMAIN urls |-> <<>>]
    /\ local = [t \in DOMAIN urls \cup {Worker(c) : c \in DOMAIN urls} \cup {Bystander}
                    |-> NoAttrs]
    /\ status = [t \in DOMAIN urls |-> 0]
    /\ found = [t \in DOMAIN urls |-> None]
    /\ inner = [t \in DOMAIN urls |-> None]
    /\ vresult = [t \in DOMAIN urls |-> None]
    /\ past = [t \in DOMAIN urls |-> <<>>]
    /\ outside = None

\* lines 243-260 of the call of thread t
UrlStart(t) ==
    /\ pc[t] = "start"
    /\ LET c == url_checks(vurl[t], sites, views, send_query)
       IN /\ trail' = [trail EXCEPT ![t] = c.trail]
          /\ req' = [req EXCEPT ![t] = c.next]
          /\ IF c.next = None
             THEN /\ pc' = [pc EXCEPT ![t] = "done"]
                  /\ inner' = [inner EXCEPT ![t] = Some(c.outcome)]
                  /\ vresult' = [vresult EXCEPT
                                    ![t] = Some(silentmethod(silent, vurl[t], c.outcome))]
             ELSE /\ pc' = [pc EXCEPT ![t] = "call"]
                  /\ UNCHANGED <<inner, vresult>>
    /\ UNCHANGED <<views, sites, send_query, vurl, renders, local, status, found,
                   past, outside>>
    /\ UNCHANGED <<varsD, varsI, varsL>>

\* line 212 in the thread of the call, and the local request of line 213 begins
Record(t) ==
    /\ pc[t] = "call"
    /\ local' = [local EXCEPT ![Worker(t)].name = Some(req[t].val.name)]
    /\ pc' = [pc EXCEPT ![t] = "request"]
    /\ trail' = [trail EXCEPT ![t] = Append(@, "local_response")]
    /\ UNCHANGED <<views, sites, send_query, vurl, req, renders, status, found,
                   inner, vresult, past, outside>>
    /\ UNCHANGED <<varsD, varsI, varsL>>

\* the view of t's local request renders a template with the context ctx:
\* Template.render, that is the wrapper of lines 185-198, runs in t's worker
RenderPass(t, ctx) ==
    /\ pc[t] = "request"
    /\ Len(renders[t]) < MaxRenders
    /\ LET w == wrapper(local[Worker(t)], ctx)
       IN /\ local' = [local EXCEPT ![Worker(t)] = w.local]
          /\ renders' = [renders EXCEPT ![t] = Append(@, [ctx |-> ctx, ran |-> w.ran])]
    /\ UNCHANGED <<views, sites, send_query, vurl, pc, req, trail, status, found,
                   inner, vresult, past, outside>>
    /\ UNCHANGED <<varsD, varsI, varsL>>

\* the local request returns with the status code st: lines 214-219, the
\* thread of the call ends and its local with it, then lines 262-264
Respond(t, st) ==
    /\ pc[t] = "request"
    /\ LET f == object_from_view_result(st, local[Worker(t)])
           r == url_finish(f)
       IN /\ status' = [status EXCEPT ![t] = st]
          /\ found' = [found EXCEPT ![t] = Some(f)]
          /\ inner' = [inner EXCEPT ![t] = Some(r)]
          /\ vresult' = [vresult EXCEPT ![t] = Some(silentmethod(silent, vurl[t], r))]
          /\ trail' = [trail EXCEPT
                          ![t] = IF f.kind = "ok" THEN Append(@, "generate_macro") ELSE @]
    /\ local' = [local EXCEPT ![Worker(t)] = ThreadEnd(@)]
    /\ pc' = [pc EXCEPT ![t] = "done"]
    /\ UNCHANGED <<views, sites, send_query, vurl, req, renders, past, outside>>
    /\ UNCHANGED <<varsD, varsI, varsL>>

\* the bystander thread renders a template with the context ctx: the wrapper
\* of lines 185-198 runs in that thread.  outside records whether the wrapped
\* render ran and whether a call in another thread was then waiting for a
\* name that ctx holds
RenderOutside(ctx) ==
    /\ LET w == wrapper(local[Bystander], ctx)
       IN /\ local' = [local EXCEPT ![Bystander] = w.local]
          /\ outside' = Some([ran |-> w.ran,
                              wanted |-> \E t \in DOMAIN pc :
                                  /\ pc[t] = "request"
                                  /\ local[Worker(t)].obj = None
                                  /\ local[Worker(t)].name.val \in DOMAIN ctx])
    /\ UNCHANGED <<views, sites, send_query, vurl, pc, req, trail, renders, status,
                   found, inner, vresult, past>>
    /\ UNCHANGED <<varsD, varsI, varsL>>

NextView ==
    \/ \E t \in DOMAIN pc : UrlStart(t)
    \/ \E t \in DOMAIN pc : Record(t)
    \/ \E t \in DOMAIN pc, ctx \in Contexts : RenderPass(t, ctx)
    \/ \E t \in DOMAIN pc, st \in StatusCodes : Respond(t, st)

\* in SpecConc the view of caller t renders with an empty context or with
\* one that holds its object under the name self.views declares for it
NextConc ==
    \/ \E t \in DOMAIN pc : UrlStart(t)
    \/ \E t \in DOMAIN pc : Record(t)
    \/ \E t \in DOMAIN pc : \E ctx \in ConcContexts(t) : RenderPass(t, ctx)
    \/ \E t \in DOMAIN pc, st \in StatusCodes : Respond(t, st)

\* the thread t, whose call of url has ended, calls url again on u: what the
\* ended call left on the caller's side is kept in past
CallAgain(t, u) ==
    /\ pc[t] = "done"
    /\ Len(past[t]) + 1 < MaxCalls
    /\ past' = [past EXCEPT ![t] = Append(@, found[t])]
    /\ vurl' = [vurl EXCEPT ![t] = u]
    /\ pc' = [pc EXCEPT ![t] = "start"]
    /\ req' = [req EXCEPT ![t] = None]
    /\ trail' = [trail EXCEPT ![t] = <<>>]
    /\ renders' = [renders EXCEPT ![t] = <<>>]
    /\ status' = [status EXCEPT ![t] = 0]
    /\ found' = [found EXCEPT ![t] = None]
    /\ inner' = [inner EXCEPT ![t] = None]
    /\ vresult' = [vresult EXCEPT ![t] = None]
    /\ UNCHANGED <<views, sites, send_query, local, outside>>
    /\ UNCHANGED <<varsD, varsI, varsL>>

\* the urls of the calls a thread makes in a row: the urls of two views and
\* one the resolver does not know
SeqUrls == {<<"/", "a">>, <<"/", "b">>, <<"/", "x">>}

NextSeq ==
    \/ \E t \in DOMAIN pc : UrlStart(t)
    \/ \E t \in DOMAIN pc : Record(t)
    \/ \E t \in DOMAIN pc, ctx \in Contexts : RenderPass(t, ctx)
    \/ \E t \in DOMAIN pc, st \in StatusCodes : Respond(t, st)
    \/ \E t \in DOMAIN pc, u \in SeqUrls : CallAgain(t, u)
    \/ \E ctx \in Contexts : RenderOutside(ctx)

\* one thread that calls url up to MaxCalls times, one call after the other,
\* and the bystander thread
InitSeq ==
    /\ NoDict /\ Loaded /\ NoLazy
    /\ silent \in BOOLEAN
    /\ views = ("V1" :> "obj") @@ ("V2" :> "page")
    /\ sites = {<<"s">>} /\ send_query = FALSE
    /\ \E u \in SeqUrls : Callers(<<u>>)

SpecSeq == InitSeq /\ [][NextSeq]_vars

\* one thread and one call, of any url on any ReplaceByView
InitView ==
    /\ NoDict /\ Loaded /\ NoLazy
    /\ silent \in BOOLEAN
    /\ views \in Registries /\ sites \in SitesPool /\ send_query \in BOOLEAN
    /\ \E u \in UrlInputs : Callers(<<u>>)

SpecView == InitView /\ [][NextView]_vars

\* NCallers threads, each about to call url on its own url
InitConc ==
    /\ NoDict /\ Loaded /\ NoLazy
    /\ silent \in BOOLEAN
    /\ views = ("V1" :> "obj") @@ ("V2" :> "page")
    /\ sites = {<<"s">>} /\ send_query = FALSE
    /\ Callers([t \in 1..NCallers |-> ConcUrl(t)])

SpecConc == InitConc /\ [][NextConc]_vars

(***************************************************************************)
(* SpecInstall: executions of the module body, lines 201-208, by several   *)
(* threads in one module namespace.  Template.render counts the wrappers   *)
(* of line 185 around the original render.  A lock object is named by the  *)
(* execution that created it; lock is the module's global name.            *)
(***************************************************************************)
\* no execution has begun: Template is as django defines it
InitInstall ==
    /\ NoDict /\ NoView /\ NoLazy
    /\ silent = FALSE
    /\ Template = [render |-> 0, render_by_model_url |-> FALSE]
    /\ lock = 0
    /\ held = [e \in 1..NLoaders |-> FALSE]
    /\ loading = [e \in 1..NLoaders |-> [pc |-> "create", seen |-> 0]]

\* execution e moves to the position p
Goto(e, p) == loading' = [loading EXCEPT ![e].pc = p]

\* line 202: lock = threading.Lock() binds the global name to a new lock
CreateLock(e) ==
    /\ loading[e].pc = "create"
    /\ lock' = e
    /\ held' = [held EXCEPT ![e] = FALSE]
    /\ Goto(e, "acquire")
    /\ UNCHANGED <<Template, varsD, varsV, varsL>>

\* line 203: lock.acquire() on the lock the global name is bound to now;
\* the thread waits while that lock is held
AcquireLock(e) ==
    /\ loading[e].pc = "acquire"
    /\ ~held[lock]
    /\ held' = [held EXCEPT ![lock] = TRUE]
    /\ Goto(e, "test")
    /\ UNCHANGED <<Template, lock, varsD, varsV, varsL>>

\* line 204: if not hasattr(Template, 'render_by_model_url')
TestMarker(e) ==
    /\ loading[e].pc = "test"
    /\ Goto(e, IF Template.render_by_model_url THEN "release" ELSE "read")
    /\ UNCHANGED <<Template, lock, held, varsD, varsV, varsL>>

\* line 206, right-hand side: Template.render is read
ReadRender(e) ==
    /\ loading[e].pc = "read"
    /\ loading' = [loading EXCEPT ![e] = [pc |-> "wrap", seen |-> Template.render]]
    /\ UNCHANGED <<Template, lock, held, varsD, varsV, varsL>>

\* line 206, assignment: Template.render = render(what was read)
WrapRender(e) ==
    /\ loading[e].pc = "wrap"
    /\ Template' = [Template EXCEPT !.render = loading[e].seen + 1]
    /\ Goto(e, "mark")
    /\ UNCHANGED <<lock, held, varsD, varsV, varsL>>

\* line 207: setattr(Template, 'render_by_model_url', True)
SetMarker(e) ==
    /\ loading[e].pc = "mark"
    /\ Template' = [Template EXCEPT !.render_by_model_url = TRUE]
    /\ Goto(e, "release")
    /\ UNCHANGED <<lock, held, varsD, varsV, varsL>>

\* line 208: lock.release() on the lock the global name is bound to now;
\* releasing a lock that is not held raises thread.error
ReleaseLock(e) ==
    /\ loading[e].pc = "release"
    /\ held' = [held EXCEPT ![lock] = FALSE]
    /\ Goto(e, IF held[lock] THEN "done" ELSE "error")
    /\ UNCHANGED <<Template, lock, varsD, varsV, varsL>>

NextInstall ==
    \/ \E e \in DOMAIN loading : CreateLock(e)
    \/ \E e \in DOMAIN loading : AcquireLock(e)
    \/ \E e \in DOMAIN loading : TestMarker(e)
    \/ \E e \in DOMAIN loading : ReadRender(e)
    \/ \E e \in DOMAIN loading : WrapRender(e)
    \/ \E e \in DOMAIN loading : SetMarker(e)
    \/ \E e \in DOMAIN loading : ReleaseLock(e)

SpecInstall == InitInstall /\ [][NextInstall]_vars

(***************************************************************************)
(* Claims about ReplaceByView.url, checked under SpecView (C5-C9) and      *)
(* SpecConc (C10).                                                         *)
(***************************************************************************)
\* the components of the url of caller t
Parts(t) == urlsplit(vurl[t])

\* url of caller t raised the exception e inside silentmethod
Raised(t, e) == inner[t] = Some(Raise(e))

\* scheme, authority and path of u are all empty
AllEmpty(u) == u.scheme = <<>> /\ u.authority = <<>> /\ u.path = <<>>

\* u has a scheme that is no server scheme
SchemeForeign(u) == u.scheme # <<>> /\ Lower(u.scheme) \notin SERVER_SCHEMES

\* the authority of u is a permitted site, letter case ignored on both sides
SitePermitted(u) == \E site \in sites : Lower(site) = Lower(u.authority)

\* the object of the first render pass of rs whose context holds name
FirstExposed(rs, name) ==
    LET hits == {j \in 1..Len(rs) : name \in DOMAIN rs[j].ctx}
    IN IF hits = {} THEN None
       ELSE Some(rs[CHOOSE j \in hits : \A k \in hits : j <= k].ctx[name])

\* the checks of caller t's call, stated on its url s with the components u
ChecksInOrder(t, s, u) ==
    /\ MACRO_RE_match(s) <=> Raised(t, "AlreadyMacroException")
    /\ ~MACRO_RE_match(s) /\ AllEmpty(u) <=> Raised(t, "NoPathException")
    /\ ~MACRO_RE_match(s) /\ ~AllEmpty(u)
          /\ (SchemeForeign(u) \/ (u.authority # <<>> /\ ~SitePermitted(u)))
          => Raised(t, "ForeignException")
    /\ Raised(t, "ForeignException")
          => /\ ~MACRO_RE_match(s) /\ ~AllEmpty(u)
             /\ SchemeForeign(u) \/ u.authority # <<>>
    /\ "resolve" \in Range(trail[t])
          => /\ ~MACRO_RE_match(s) /\ ~AllEmpty(u) /\ ~SchemeForeign(u)
             /\ u.authority = <<>> \/ SitePermitted(u)

\* C5: url classifies its argument by checks in a fixed order, the first
\* failing one deciding the exception: AlreadyMacroException if the argument
\* matches MACRO_RE; else NoPathException if scheme, authority and path are
\* all empty; else ForeignException if a scheme is present and is no server
\* scheme or an authority is present and is no permitted site.  Only a url
\* that passes the three checks reaches the resolver.
C5_ChecksInOrder ==
    \A t \in DOMAIN pc : pc[t] # "start" => ChecksInOrder(t, vurl[t], Parts(t))

\* a macro followed by ':' has a scheme that is no server scheme, and is
\* rejected as a macro
C5_Witness ==
    /\ pc = <<"done">>
    /\ SchemeForeign(Parts(1))
    /\ Raised(1, "AlreadyMacroException")

\* C6 as claimed: a url whose authority equals a permitted site when both
\* are compared without regard to letter case is not rejected with
\* ForeignException, whatever the letter case of the authority in the url
\* and of the site as given to __init__.
C6_SiteCheckIgnoresCase ==
    \A t \in DOMAIN pc :
        pc[t] # "start" /\ ~SchemeForeign(Parts(t))
            /\ Parts(t).authority # <<>> /\ SitePermitted(Parts(t))
            => ~Raised(t, "ForeignException")

\* C7 as claimed: a url that passes the macro, path and site checks fails
\* with DoesNotFoundException, and with nothing else, both when the resolver
\* cannot resolve it and when the view it resolves to is not in self.views.
C7_RouterOrRegistryFailureIsNotFound ==
    \A t \in DOMAIN pc :
        pc[t] # "start" /\ "resolve" \in Range(trail[t])
            /\ (resolve(vurl[t]).kind # "ok" \/ resolve(vurl[t]).val \notin DOMAIN views)
            => Raised(t, "DoesNotFoundException")

\* C8 as claimed: whenever the resolution fails (already a macro, no path,
\* foreign, resolver or registry lookup failed, response not successful, no
\* object captured), url returns its argument when silent is True and raises
\* the ReplaceException of the failure when silent is False.
C8_SilentModeUniform ==
    \A t \in DOMAIN pc :
        pc[t] = "done" /\ "generate_macro" \notin Range(trail[t])
            => /\ inner[t].val.kind # "ok"
               /\ vresult[t] = IF silent THEN Some(Ok(vurl[t])) ELSE inner[t]

\* the url with the path macro(obj) and the query and fragment of u
MacroUrlOf(res, obj, u) ==
    /\ res.kind = "ok"
    /\ urlsplit(res.val).path = macro(obj)
    /\ urlsplit(res.val).query = u.query
    /\ urlsplit(res.val).fragment = u.fragment

\* C9 as claimed: when the url passes the checks, the resolver maps it to a
\* registered view, the local response is successful and a render pass
\* exposes the declared variable, url returns a url whose path is the macro
\* '{@ <module>.<class> <id> @}' of the captured object and whose query and
\* fragment are those of the argument.
C9_HappyPathReturnsMacroUrl ==
    \A t \in DOMAIN pc :
        pc[t] = "done" /\ status[t] = 200
            /\ FirstExposed(renders[t], req[t].val.name) # None
            => MacroUrlOf(vresult[t].val,
                          FirstExposed(renders[t], req[t].val.name).val, Parts(t))

\* C10 as claimed: of concurrent url calls on distinct urls, under every
\* interleaving of their steps, each finds the object its own render passes
\* exposed, never one of another call, and returns the macro of that object.
C10_EachCallReturnsItsOwnMacro ==
    \A t \in DOMAIN pc :
        pc[t] = "done" /\ found[t].val.kind = "ok"
            => /\ found[t].val.val = FirstExposed(renders[t], req[t].val.name).val
               /\ MacroUrlOf(vresult[t].val, found[t].val.val, Parts(t))

\* the part of C10 that is about the locals: a call finds an object exactly
\* when its response is successful and one of its own render passes exposed
\* the variable, and then it finds the first such object
EachCallFindsItsOwnObject ==
    \A t \in DOMAIN pc :
        pc[t] = "done" /\ found[t] # None
            => found[t].val =
                  (IF status[t] = 200 /\ FirstExposed(renders[t], req[t].val.name) # None
                   THEN Ok(FirstExposed(renders[t], req[t].val.name).val)
                   ELSE Raise("DoesNotFoundException"))

\* how often the collaborator c was invoked in the trail tr
Invocations(tr, c) == Cardinality({j \in 1..Len(tr) : tr[j] = c})

\* the call of caller t failed in the checks of lines 243-256: as a macro,
\* without path, as foreign, in the resolver or for a view not in self.views
FailedBeforeCall(t) ==
    \/ Raised(t, "AlreadyMacroException")
    \/ Raised(t, "NoPathException")
    \/ Raised(t, "ForeignException")
    \/ /\ "resolve" \in Range(trail[t])
       /\ \/ resolve(vurl[t]).kind # "ok"
          \/ resolve(vurl[t]).val \notin DOMAIN views

\* C19: a call of url makes at most one local request; a call that fails as
\* a macro, without path, as foreign, in the resolver or for a view that is
\* not in self.views makes none, calls no object_from_view and leaves the
\* local of every thread without pending name and without object.
C19_AtMostOneLocalRequest ==
    \A t \in DOMAIN pc :
        /\ Invocations(trail[t], "local_response") <= 1
        /\ Invocations(trail[t], "object_from_view") <= 1
        /\ pc[t] # "start" /\ FailedBeforeCall(t)
              => /\ pc[t] = "done"
                 /\ Invocations(trail[t], "local_response") = 0
                 /\ Invocations(trail[t], "object_from_view") = 0
                 /\ renders[t] = <<>> /\ status[t] = 0
                 /\ \A x \in DOMAIN local : local[x] = NoAttrs

\* the resolver knows the url, its view is not in self.views: the call has
\* ended after the resolver, and another url reaches its local request
C19_Witness ==
    \E t \in DOMAIN pc :
        /\ pc[t] = "done"
        /\ resolve(vurl[t]).kind = "ok" /\ resolve(vurl[t]).val \notin DOMAIN views
        /\ views # <<>>
        /\ trail[t] = <<"resolve">>
        /\ Raised(t, "DoesNotFoundException")
        /\ local[Worker(t)] = NoAttrs

\* C20 as claimed: the local request of a call gets the path of the url and,
\* as query, the query of the url when send_query is set and '' when it is
\* not; in both cases the url returned carries the query and the fragment of
\* the argument.
C20_QueryForwarding ==
    \A t \in DOMAIN pc :
        /\ req[t] # None
              => /\ req[t].val.path = Parts(t).path
                 /\ req[t].val.query = IF send_query THEN Parts(t).query ELSE <<>>
        /\ pc[t] = "done" /\ found[t] # None /\ found[t].val.kind = "ok"
              => /\ vresult[t].val.kind = "ok"
                 /\ urlsplit(vresult[t].val.val).query = Parts(t).query
                 /\ urlsplit(vresult[t].val.val).fragment = Parts(t).fragment

\* the part of C20 that is about the local request
QueryForwardedToTheView ==
    \A t \in DOMAIN pc :
        req[t] # None
            => /\ req[t].val.path = Parts(t).path
               /\ req[t].val.query = IF send_query THEN Parts(t).query ELSE <<>>

(***************************************************************************)
(* Claims about object_from_view and the wrapper of Template.render.       *)
(***************************************************************************)
\* caller t's local request returns in this step
Responds(t) == pc[t] = "request" /\ pc'[t] = "done"

\* C13: when the local request of a call returns, object_from_view raises
\* DoesNotFoundException if the status code is not 200, also when an object
\* was captured; raises DoesNotFoundException if the status code is 200 and
\* no object was captured; and returns the captured object otherwise.
C13_ObjectFromViewOutcome ==
    [][\A t \in DOMAIN pc :
          Responds(t) =>
              found'[t] =
                  Some(IF status'[t] # 200 THEN Raise("DoesNotFoundException")
                       ELSE IF local[Worker(t)].obj = None
                            THEN Raise("DoesNotFoundException")
                       ELSE Ok(local[Worker(t)].obj.val))]_vars

\* a call whose render passes exposed the object and whose response was not
\* successful
C13_Witness ==
    \E t \in DOMAIN pc :
        /\ pc[t] = "done" /\ status[t] = 404
        /\ FirstExposed(renders[t], req[t].val.name) # None
        /\ found[t] = Some(Raise("DoesNotFoundException"))

\* the render passes of rs before the j-th
Before(rs, j) == SubSeq(rs, 1, j - 1)

\* C14: during the local request of a call the captured object is the value
\* of the declared variable in the first render pass whose context holds it,
\* and there is none while no pass held it; a pass runs the wrapped render
\* exactly when no earlier pass of the call captured an object, so a pass
\* whose context lacks the name still renders and a pass after the capture
\* returns '' and changes nothing.
C14_CaptureFirstWins ==
    \A t \in DOMAIN pc :
        pc[t] = "request" =>
            /\ local[Worker(t)].name = Some(req[t].val.name)
            /\ local[Worker(t)].obj = FirstExposed(renders[t], req[t].val.name)
            /\ \A j \in 1..Len(renders[t]) :
                  renders[t][j].ran
                      <=> FirstExposed(Before(renders[t], j), req[t].val.name) = None

\* two passes expose different objects: the first is captured, the second
\* pass does not render
C14_Witness ==
    \E t \in DOMAIN pc :
        /\ pc[t] = "request" /\ Len(renders[t]) >= 2
        /\ req[t].val.name \in DOMAIN renders[t][1].ctx
        /\ req[t].val.name \in DOMAIN renders[t][2].ctx
        /\ renders[t][1].ctx # renders[t][2].ctx
        /\ local[Worker(t)].obj = Some(renders[t][1].ctx[req[t].val.name])
        /\ ~renders[t][2].ran

\* C15: a call of object_from_view starts with nothing on the local of its
\* thread and none of what it sets there outlives it: the thread of the
\* caller never holds a pending name or a captured object, the local of the
\* call's thread is empty before line 212 and after the call has ended, and
\* a call returns the object its own render passes exposed or fails with
\* DoesNotFoundException, whatever an earlier call of the same caller
\* captured.
C15_EachCallStartsEmpty ==
    \A t \in DOMAIN pc :
        /\ local[t] = NoAttrs
        /\ pc[t] \in {"start", "call", "done"} => local[Worker(t)] = NoAttrs
        /\ pc[t] = "done" /\ found[t] # None
              => found[t].val =
                    (IF status[t] = 200
                           /\ FirstExposed(renders[t], req[t].val.name) # None
                     THEN Ok(FirstExposed(renders[t], req[t].val.name).val)
                     ELSE Raise("DoesNotFoundException"))

\* an earlier call of the caller captured an object; this call's response is
\* successful, its view exposed none, and it fails
C15_Witness ==
    \E t \in DOMAIN pc :
        /\ \E j \in 1..Len(past[t]) : past[t][j] # None /\ past[t][j].val.kind = "ok"
        /\ pc[t] = "done" /\ status[t] = 200
        /\ renders[t] # <<>>
        /\ FirstExposed(renders[t], req[t].val.name) = None
        /\ found[t] = Some(Raise("DoesNotFoundException"))

\* C16: a render pass in a thread that has no pending name and no captured
\* object runs the wrapped render and changes the local of no thread,
\* whatever the calls of url in other threads are doing.
C16_HookTransparentOutside ==
    [][outside' # outside
          => /\ local[Bystander] = NoAttrs
             /\ outside'.val.ran
             /\ local' = local]_vars

\* the bystander rendered a context holding the name a call in another
\* thread was waiting for; that call still has no object
C16_Witness ==
    /\ outside # None /\ outside.val.ran /\ outside.val.wanted
    /\ \E t \in DOMAIN pc :
          /\ pc[t] = "request" /\ renders[t] = <<>>
          /\ local[Worker(t)].name # None /\ local[Worker(t)].obj = None
    /\ local[Bystander] = NoAttrs

(***************************************************************************)
(* Claim about the installation, checked under SpecInstall.                *)
(***************************************************************************)
\* C17 as claimed: after any number of executions of lines 202-208, one
\* after the other or concurrent in several threads, Template.render is
\* wrapped exactly once and never twice, and the marker is set.
C17_WrappedExactlyOnce ==
    /\ Template.render <= 1
    /\ \A e \in DOMAIN loading :
          loading[e].pc \in {"done", "error"}
              => Template.render = 1 /\ Template.render_by_model_url

\* what holds of the installation: an execution that has ended leaves the
\* marker set and at least one wrapper, and the executions that run after
\* the marker is set add none
InstalledAtLeastOnce ==
    \A e \in DOMAIN loading :
        loading[e].pc \in {"done", "error"}
            => Template.render >= 1 /\ Template.render_by_model_url

(***************************************************************************)
(* Claim about the lazy caches, checked under SpecLazy.                    *)
(***************************************************************************)
\* the caches a build by one thread alone gives
BuiltDict == [l \in {Lower(k) : k \in DOMAIN source} |->
                 source[CHOOSE k \in DOMAIN source : Lower(k) = l]]
BuiltList == SortReverse(Items(BuiltDict))
BuiltRegexp == re_compile(PatternSource(BuiltList))

\* what a call o of thread t returns on the built caches
OnBuilt(o) ==
    IF o = "url" THEN silentmethod(silent, input, url_body(BuiltDict, input))
    ELSE Ok(text(BuiltRegexp, BuiltList, input).out)

\* all threads have returned
AllDone == \A t \in DOMAIN thr : thr[t].pc = "done"

\* C18 as claimed: under every interleaving of the first calls of several
\* threads on one replacer, each call returns what it returns on a fully
\* built replacer, and once the calls have returned the cached dictionary,
\* list and pattern are those of a build by one thread alone.
C18_ConcurrentFirstCallsAgree ==
    /\ \A t \in DOMAIN thr :
          thr[t].pc = "done" => thr[t].out = Some(OnBuilt(thr[t].op))
    /\ AllDone =>
          /\ dict # None => dict.val = BuiltDict
          /\ list # None => list.val = BuiltList
          /\ regexp # None => regexp.val = BuiltRegexp

\* what holds of the caches: the dictionary ends as in a build by one thread
ConcurrentDictConverges ==
    AllDone /\ dict # None => dict.val = BuiltDict

====
